---- MODULE Spec2Model ----
(***************************************************************************)
(* Model of uploader_script.py: the Telegram deep-link parser              *)
(* (parse_telegram_link), the resumable-upload retry loop (upload_video)   *)
(* and the pipeline download_video_and_upload with its cleanup, as run     *)
(* from the __main__ block in single-link mode.                            *)
(*                                                                         *)
(* Strings are sequences of one-character strings.  Python list indices    *)
(* are 0-based; the sequences here are 1-based, so the model's c_index is  *)
(* the source's c_index + 1.                                               *)
(***************************************************************************)
EXTENDS Integers, Sequences, FiniteSets, TLC

VARIABLES
    mode,                 \* which entry point runs: "parse" (the parser alone) or "main"
    link,                 \* the link argument
    parsed,               \* result of parse_telegram_link(link), NoResult before the call
    pc,                   \* position in __main__ / download_video_and_upload
    env,                  \* os.environ restricted to the six secrets
    client,               \* "none" | "created"
    disconnects,          \* number of client.disconnect() calls
    message,              \* what client.get_messages returned
    downloaded_filepath,  \* "none" | "file"
    disk_file,            \* TRUE iff video_<channel>_<message>.mp4 exists on disk
    files_created,        \* TRUE iff this run has created that file
    download_started,     \* TRUE iff client.download_media has been called
    auth_attempted,       \* TRUE iff creds.refresh was attempted
    system_exit,          \* TRUE while a SystemExit raised by sys.exit(1) propagates
    exit_status,          \* -1 while the process runs, then the process exit status
    printed,              \* the kinds of diagnostics printed so far
    response,             \* upload_video: "none" | "id" | "noid"
    retry,                \* upload_video: retry counter
    sleeps,               \* upload_video: arguments of the time.sleep calls, in order
    calls,                \* upload_video: outcomes of the request.next_chunk calls, in order
    upload_result,        \* upload_video: "running" | "id" | "None"
    attempted,            \* the links download_video_and_upload was called with, in order
    missing_named,        \* the secret names the missing-secrets message names
    steps                 \* the pipeline steps begun so far, in order

vars == <<mode, link, parsed, pc, env, client, disconnects, message,
          downloaded_filepath, disk_file, files_created, download_started,
          auth_attempted, system_exit, exit_status, printed, response, retry,
          sleeps, calls, upload_result, attempted, missing_named, steps>>

pipeline_vars == <<pc, env, client, disconnects, message, downloaded_filepath,
                   disk_file, files_created, download_started, auth_attempted,
                   system_exit, exit_status, printed, attempted,
                   missing_named, steps>>

upload_vars == <<response, retry, sleeps, calls, upload_result>>

----------------------------------------------------------------------------
(* Bounds *)

MaxLinkLen == 8     \* longest link tail given to the parser alone
MaxChunks == 2      \* most non-final chunk responses in one upload

----------------------------------------------------------------------------
(* Strings *)

Chars == {"/", "c", "0", "1"}

DigitChars == <<"0", "1", "2", "3", "4", "5", "6", "7", "8", "9">>

IsDigit(ch) == \E i \in 1..10 : DigitChars[i] = ch

DigitValue(ch) == (CHOOSE i \in 1..10 : DigitChars[i] = ch) - 1

\* str.strip('/'): drop every leading and every trailing '/'
RECURSIVE LStrip(_)
LStrip(s) ==
    IF s # <<>> /\ Head(s) = "/" THEN LStrip(Tail(s)) ELSE s

RECURSIVE RStrip(_)
RStrip(s) ==
    IF s # <<>> /\ s[Len(s)] = "/" THEN RStrip(SubSeq(s, 1, Len(s) - 1)) ELSE s

Strip(s) == RStrip(LStrip(s))

\* str.split('/'): the pieces between the '/' characters, empty ones included
RECURSIVE Split(_)
Split(s) ==
    IF \E i \in 1..Len(s) : s[i] = "/"
    THEN LET i == CHOOSE j \in 1..Len(s) :
                      s[j] = "/" /\ \A k \in 1..(j - 1) : s[k] # "/"
         IN  <<SubSeq(s, 1, i - 1)>> \o Split(SubSeq(s, i + 1, Len(s)))
    ELSE <<s>>

NonEmpty(p) == p # <<>>

\* [p for p in link.strip('/').split('/') if p]
Parts(l) == SelectSeq(Split(Strip(l)), NonEmpty)

\* list.index('c'): position of the first 'c' element, 0 when there is none
\* (where Python raises ValueError)
IndexOfC(parts) ==
    IF \E i \in 1..Len(parts) : parts[i] = <<"c">>
    THEN CHOOSE i \in 1..Len(parts) :
             parts[i] = <<"c">> /\ \A k \in 1..(i - 1) : parts[k] # <<"c">>
    ELSE 0

AllDigits(s) == s # <<>> /\ \A i \in 1..Len(s) : IsDigit(s[i])

\* the strings int() accepts: an optional sign followed by decimal digits
IsIntLiteral(s) ==
    /\ s # <<>>
    /\ IF s[1] = "-" THEN AllDigits(Tail(s)) ELSE AllDigits(s)

RECURSIVE DigitsToNat(_)
DigitsToNat(s) ==
    IF s = <<>> THEN 0
    ELSE 10 * DigitsToNat(SubSeq(s, 1, Len(s) - 1)) + DigitValue(s[Len(s)])

\* int(s) for a string int() accepts
StrToInt(s) ==
    IF s[1] = "-" THEN 0 - DigitsToNat(Tail(s)) ELSE DigitsToNat(s)

RECURSIVE NatToStr(_)
NatToStr(n) ==
    IF n < 10 THEN <<DigitChars[n + 1]>>
    ELSE NatToStr(n \div 10) \o <<DigitChars[(n % 10) + 1]>>

\* str(n) of an int, as the f-string formats it
IntToStr(n) == IF n < 0 THEN <<"-">> \o NatToStr(0 - n) ELSE NatToStr(n)

----------------------------------------------------------------------------
(* parse_telegram_link *)

NoResult == [err |-> "not_called", channel_id |-> 0, message_id |-> 0]

ParseError(e) == [err |-> e, channel_id |-> 0, message_id |-> 0]

\* ChannelRef with the sentinel prefix one digit short
ChannelRef_ShortPrefix(base_channel_id) ==
    StrToInt(<<"-", "1", "0">> \o IntToStr(base_channel_id))

\* int(f'-100{base_channel_id}')
ChannelRef(base_channel_id) ==
    LET text == <<"-", "1", "0", "0">> \o IntToStr(base_channel_id)
    IN  IF IsIntLiteral(text) THEN StrToInt(text) ELSE 0

ChannelRefFails(base_channel_id) ==
    ~IsIntLiteral(<<"-", "1", "0", "0">> \o IntToStr(base_channel_id))

\* MessageSegment assuming the message id directly follows the channel id
MessageSegment_AfterChannel(parts, c_index) ==
    IF Len(parts) >= c_index + 2 THEN parts[c_index + 2] ELSE parts[Len(parts)]

\* parts[-1]: "the message ID is always the last element"
MessageSegment(parts, c_index) == parts[Len(parts)]

\* The value returned, or the error that makes the function print and
\* call sys.exit(1).
parse_telegram_link(l) ==
    LET parts   == Parts(l)
        c_index == IndexOfC(parts)
    IN  IF c_index = 0 THEN ParseError("NotCanonicalLink")
        ELSE IF ~IsIntLiteral(MessageSegment(parts, c_index))
             THEN ParseError("InvalidNumericId")
        ELSE IF Len(parts) <= c_index THEN ParseError("MissingChannelId")
        ELSE IF ~IsIntLiteral(parts[c_index + 1]) THEN ParseError("InvalidNumericId")
        ELSE IF ChannelRefFails(StrToInt(parts[c_index + 1]))
             THEN ParseError("InvalidNumericId")
        ELSE [err        |-> "none",
              channel_id |-> ChannelRef(StrToInt(parts[c_index + 1])),
              message_id |-> StrToInt(MessageSegment(parts, c_index))]

----------------------------------------------------------------------------
(* Environment and inputs *)

Secrets == {"TG_API_ID", "TG_API_HASH", "TG_SESSION_STRING",
            "YOUTUBE_CLIENT_ID", "YOUTUBE_CLIENT_SECRET", "YOUTUBE_REFRESH_TOKEN"}

\* os.environ.get(name): None when unset, '' when set to the empty string
SecretValues == {"unset", "empty", "set"}

AllSet == [s \in Secrets |-> "set"]

\* AllSecretsPresent with the check left out
AllSecretsPresent_Unchecked(e) == TRUE

\* all(required_secrets): None and '' are falsy
AllSecretsPresent(e) == \A s \in Secrets : e[s] = "set"

\* the secret names that appear in the two lines printed when a secret is
\* missing: "Missing one or more required secrets. ..." names none
NamedInConfigError(e) == {}

\* the telegram_link argument given on the command line
Link_Plain  == <<"c", "/", "1", "/", "0">>
Link_Thread == <<"c", "/", "1", "/", "1", "/", "0">>
Link_NoC    == <<"1", "/", "0">>
Link_Single == <<"c", "/", "1">>

\* three links in one argument, separated by commas, the second one malformed
Link_Batch  == Link_Plain \o <<",">> \o Link_NoC \o <<",">> \o Link_Thread

MainLinks == {Link_Plain, Link_Thread, Link_NoC, Link_Single, Link_Batch}

\* what precedes the enumerated tail of a link given to the parser alone
\* ("t/" stands for a scheme and host such as https://t.me/)
LinkPrefixes == {<<>>, <<"t", "/">>, <<"c", "/", "0", "/">>}

\* outcomes of one request.next_chunk() call
ChunkOutcomes == {"raise", "progress", "id", "noid"}

MAX_RETRIES == 5

\* sleep_time growing linearly instead of doubling
sleep_time_Linear(r) == 2 * r

\* sleep_time = 2 ** retry
sleep_time(r) == 2 ^ r

\* SupportedMedia without the isinstance check on message.media
SupportedMedia_AnyMedia(m) == m \in {"document", "other_media"}

\* message and message.media and isinstance(message.media, MessageMediaDocument)
SupportedMedia(m) == m = "document"

Count(seq, x) == Cardinality({i \in 1..Len(seq) : seq[i] = x})

----------------------------------------------------------------------------
(* Initial states *)

IdleUpload ==
    /\ response = "none"
    /\ retry = 0
    /\ sleeps = <<>>
    /\ calls = <<>>
    /\ upload_result = "running"

IdlePipeline ==
    /\ client = "none"
    /\ disconnects = 0
    /\ message = "unfetched"
    /\ downloaded_filepath = "none"
    /\ disk_file = FALSE
    /\ files_created = FALSE
    /\ download_started = FALSE
    /\ auth_attempted = FALSE
    /\ system_exit = FALSE
    /\ exit_status = -1
    /\ printed = {}
    /\ attempted = <<>>
    /\ missing_named = {}
    /\ steps = <<>>

\* the parser called on its own, on every link made of a prefix and a tail
\* of at most MaxLinkLen characters
InitParse ==
    /\ mode = "parse"
    /\ \E pre \in LinkPrefixes : \E k \in 0..MaxLinkLen : \E tail \in [1..k -> Chars] :
           link = pre \o tail
    /\ parsed = NoResult
    /\ pc = "parse_call"
    /\ env = AllSet
    /\ IdlePipeline
    /\ IdleUpload

\* python uploader_script.py <telegram_link>
Init ==
    /\ mode = "main"
    /\ link \in MainLinks
    /\ parsed = NoResult
    /\ pc = "secrets"
    /\ env \in [Secrets -> SecretValues]
    /\ IdlePipeline
    /\ IdleUpload

----------------------------------------------------------------------------
(* The parser on its own *)

\* one call of parse_telegram_link(link); an error is printed and the
\* process exits with status 1
ParseCall ==
    /\ mode = "parse"
    /\ pc = "parse_call"
    /\ parsed' = parse_telegram_link(link)
    /\ pc' = IF parsed'.err = "none" THEN "parse_returned" ELSE "parse_exited"
    /\ exit_status' = IF parsed'.err = "none" THEN exit_status ELSE 1
    /\ printed' = IF parsed'.err = "none" THEN printed ELSE {"parse"}
    /\ UNCHANGED <<mode, link, env, client, disconnects, message,
                   downloaded_filepath, disk_file, files_created,
                   download_started, auth_attempted, system_exit,
                   attempted, missing_named, steps>>
    /\ UNCHANGED upload_vars

NextParse == ParseCall

SpecParse == InitParse /\ [][NextParse]_vars

----------------------------------------------------------------------------
(* download_video_and_upload, run by __main__ in single-link mode *)

\* an exception caught by "except Exception": print it, then the finally block
Caught ==
    /\ printed' = printed \cup {"unexpected"}
    /\ pc' = "finally"

\* steps 1-2: read the six secrets, sys.exit(1) unless all are truthy
\* (outside the try block: no cleanup runs)
CheckSecrets ==
    /\ mode = "main"
    /\ pc = "secrets"
    /\ attempted' = Append(attempted, link)
    /\ steps' = Append(steps, "secrets")
    /\ IF AllSecretsPresent(env)
       THEN /\ pc' = "parse"
            /\ UNCHANGED <<printed, system_exit, missing_named>>
       ELSE /\ printed' = printed \cup {"config"}
            /\ missing_named' = NamedInConfigError(env)
            /\ system_exit' = TRUE
            /\ pc' = "unwound"
    /\ UNCHANGED <<mode, link, parsed, env, client, disconnects, message,
                   downloaded_filepath, disk_file, files_created,
                   download_started, auth_attempted, exit_status>>
    /\ UNCHANGED upload_vars

\* step 3: parse_telegram_link(link), which calls sys.exit(1) on any error
\* (outside the try block: no cleanup runs)
ParseLink ==
    /\ mode = "main"
    /\ pc = "parse"
    /\ steps' = Append(steps, "parse")
    /\ parsed' = parse_telegram_link(link)
    /\ IF parsed'.err = "none"
       THEN /\ pc' = "connect"
            /\ UNCHANGED <<printed, system_exit>>
       ELSE /\ printed' = printed \cup {"parse"}
            /\ system_exit' = TRUE
            /\ pc' = "unwound"
    /\ UNCHANGED <<mode, link, env, client, disconnects, message,
                   downloaded_filepath, disk_file, files_created,
                   download_started, auth_attempted, exit_status,
                   attempted, missing_named>>
    /\ UNCHANGED upload_vars

\* step 4: StringSession(...), TelegramClient(...), await client.start()
Connect ==
    /\ mode = "main"
    /\ pc = "connect"
    /\ steps' = Append(steps, "connect")
    /\ \E outcome \in {"ok", "session_error", "start_error"} :
          /\ client' = IF outcome = "session_error" THEN "none" ELSE "created"
          /\ IF outcome = "ok"
             THEN pc' = "get_message" /\ UNCHANGED printed
             ELSE Caught
    /\ UNCHANGED <<mode, link, parsed, env, disconnects, message,
                   downloaded_filepath, disk_file, files_created,
                   download_started, auth_attempted, system_exit, exit_status,
                   attempted, missing_named>>
    /\ UNCHANGED upload_vars

\* step 5: await client.get_messages(...) and the check for a message
\* carrying a document; otherwise print the error and return
GetMessage ==
    /\ mode = "main"
    /\ pc = "get_message"
    /\ \E m \in {"absent", "no_media", "other_media", "document", "raise"} :
          IF m = "raise"
          THEN Caught /\ UNCHANGED message /\ steps' = Append(steps, "fetch")
          ELSE /\ message' = m
               /\ steps' = steps \o <<"fetch", "validate_media">>
               /\ IF SupportedMedia(m)
                  THEN pc' = "download" /\ UNCHANGED printed
                  ELSE /\ printed' = printed \cup {"no_media"} \cup
                                     (IF m = "no_media" THEN {"no_media_note"} ELSE {})
                       /\ pc' = "finally"
    /\ UNCHANGED <<mode, link, parsed, env, client, disconnects,
                   downloaded_filepath, disk_file, files_created,
                   download_started, auth_attempted, system_exit, exit_status,
                   attempted, missing_named>>
    /\ UNCHANGED upload_vars

\* step 6, first part: await client.download_media(message, file_name, ...)
\* is called; it fails or returns None before writing anything, or it
\* opens file_name and starts writing
DownloadStart ==
    /\ mode = "main"
    /\ pc = "download"
    /\ download_started' = TRUE
    /\ steps' = Append(steps, "download")
    /\ \E outcome \in {"raise", "returns_none", "writing"} :
          IF outcome = "writing"
          THEN /\ disk_file' = TRUE
               /\ files_created' = TRUE
               /\ pc' = "downloading"
               /\ UNCHANGED printed
          ELSE \* os.path.basename(None) raises TypeError when None is returned
               /\ Caught
               /\ UNCHANGED <<disk_file, files_created>>
    /\ UNCHANGED <<mode, link, parsed, env, client, disconnects, message,
                   downloaded_filepath, auth_attempted, system_exit, exit_status,
                   attempted, missing_named>>
    /\ UNCHANGED upload_vars

\* step 6, second part: the transfer completes and download_media returns
\* the path, which is assigned to downloaded_filepath, or the transfer fails
\* with the file partly written and the assignment never happens
DownloadEnd ==
    /\ mode = "main"
    /\ pc = "downloading"
    /\ \E outcome \in {"complete", "raise"} :
          IF outcome = "complete"
          THEN /\ downloaded_filepath' = "file"
               /\ pc' = "auth"
               /\ UNCHANGED printed
          ELSE /\ Caught
               /\ UNCHANGED downloaded_filepath
    /\ UNCHANGED <<mode, link, parsed, env, client, disconnects, message,
                   disk_file, files_created, download_started, auth_attempted,
                   system_exit, exit_status, attempted, missing_named, steps>>
    /\ UNCHANGED upload_vars

\* get_youtube_service returning to its caller after printing the error,
\* in place of sys.exit(1)
get_youtube_service_ReturnsOnError ==
    /\ mode = "main"
    /\ pc = "auth"
    /\ auth_attempted' = TRUE
    /\ steps' = Append(steps, "auth")
    /\ \E ok \in BOOLEAN :
          /\ printed' = IF ok THEN printed ELSE printed \cup {"auth"}
          /\ pc' = "upload"
          /\ UNCHANGED system_exit
    /\ UNCHANGED <<mode, link, parsed, env, client, disconnects, message,
                   downloaded_filepath, disk_file, files_created,
                   download_started, exit_status, attempted, missing_named>>
    /\ UNCHANGED upload_vars

\* step 7, first part: get_youtube_service(...); on any error it prints and
\* calls sys.exit(1): SystemExit is not an Exception, so it passes the except
\* clause and unwinds through the finally block
get_youtube_service ==
    /\ mode = "main"
    /\ pc = "auth"
    /\ auth_attempted' = TRUE
    /\ steps' = Append(steps, "auth")
    /\ \E ok \in BOOLEAN :
          IF ok
          THEN /\ pc' = "upload"
               /\ UNCHANGED <<printed, system_exit>>
          ELSE /\ printed' = printed \cup {"auth"}
               /\ system_exit' = TRUE
               /\ pc' = "finally"
    /\ UNCHANGED <<mode, link, parsed, env, client, disconnects, message,
                   downloaded_filepath, disk_file, files_created,
                   download_started, exit_status, attempted, missing_named>>
    /\ UNCHANGED upload_vars

\* GivesUp without the cap on retries
GivesUp_Never(r) == FALSE

\* GivesUp allowing one retry more
GivesUp_OneMore(r) == r > MAX_RETRIES + 1

\* upload_video: what the except clause does with the retry counter r
\* already incremented: give up (retry > MAX_RETRIES), or sleep
GivesUp(r) == r > MAX_RETRIES

\* RetryAfter with the counter reset by every chunk that went through
RetryAfter_ResetOnProgress(outcome, r) ==
    IF outcome \in {"raise", "noid"} THEN r + 1
    ELSE IF outcome = "progress" THEN 0 ELSE r

\* upload_video: the retry counter after one next_chunk call: set to 0 once
\* before the loop, incremented in the except clause and nowhere reset
RetryAfter(outcome, r) ==
    IF outcome \in {"raise", "noid"} THEN r + 1 ELSE r

\* ReturnValue without the check for 'id' in the response
ReturnValue_AnyResponse(resp) == IF resp # "none" THEN "id" ELSE "None"

\* upload_video: response['id'] when the final response has one, else the
\* "return None" after the loop
ReturnValue(resp) == IF resp = "id" THEN "id" ELSE "None"

\* step 7, second part: one iteration of "while response is None" in
\* upload_video: the next_chunk call, the check of a final response, and the
\* except clause.  A return (or the loop's end) hands back to the pipeline,
\* which ignores the result and falls into the finally block.
NextChunk ==
    /\ mode = "main"
    /\ pc = "upload"
    /\ response = "none"
    /\ \E outcome \in ChunkOutcomes :
          /\ outcome = "progress" => Count(calls, "progress") < MaxChunks
          /\ calls' = Append(calls, outcome)
          /\ retry' = RetryAfter(outcome, retry)
          /\ IF outcome = "progress"
             THEN UNCHANGED <<response, sleeps, upload_result, printed, pc>>
             ELSE IF outcome = "id"
             THEN /\ response' = "id"
                  /\ upload_result' = ReturnValue(response')
                  /\ printed' = printed \cup {"upload_complete"}
                  /\ pc' = "finally"
                  /\ UNCHANGED sleeps
             ELSE \* next_chunk raised, or the final response has no 'id' and
                  \* the loop body raises Exception itself
                  /\ response' = IF outcome = "noid" THEN "noid" ELSE response
                  /\ IF GivesUp(retry')
                     THEN /\ printed' = printed \cup {"max_retries"}
                          /\ UNCHANGED sleeps
                          /\ upload_result' = ReturnValue(response')
                          /\ pc' = "finally"
                     ELSE /\ printed' = printed \cup {"retriable"}
                          /\ sleeps' = Append(sleeps, sleep_time(retry'))
                          /\ IF response' = "none"
                             THEN UNCHANGED <<upload_result, pc>>
                             ELSE /\ upload_result' = ReturnValue(response')
                                  /\ pc' = "finally"
    /\ steps' = IF calls = <<>> THEN Append(steps, "upload") ELSE steps
    /\ UNCHANGED <<mode, link, parsed, env, client, disconnects, message,
                   downloaded_filepath, disk_file, files_created,
                   download_started, auth_attempted, system_exit, exit_status,
                   attempted, missing_named>>

\* Finally with the cleanup skipped while a SystemExit propagates
Finally_NotOnSystemExit ==
    /\ mode = "main"
    /\ pc = "finally"
    /\ disconnects' = IF client # "none" /\ ~system_exit
                      THEN disconnects + 1 ELSE disconnects
    /\ disk_file' = IF downloaded_filepath # "none" /\ disk_file /\ ~system_exit
                    THEN FALSE ELSE disk_file
    /\ pc' = "unwound"
    /\ UNCHANGED <<mode, link, parsed, env, client, message,
                   downloaded_filepath, files_created, download_started,
                   auth_attempted, system_exit, exit_status, printed,
                   attempted, missing_named, steps>>
    /\ UNCHANGED upload_vars

\* step 8: the finally block (client.disconnect() and os.remove are taken
\* to succeed)
Finally ==
    /\ mode = "main"
    /\ pc = "finally"
    /\ disconnects' = IF client # "none" THEN disconnects + 1 ELSE disconnects
    /\ disk_file' = IF downloaded_filepath # "none" /\ disk_file THEN FALSE ELSE disk_file
    /\ pc' = "unwound"
    /\ UNCHANGED <<mode, link, parsed, env, client, message,
                   downloaded_filepath, files_created, download_started,
                   auth_attempted, system_exit, exit_status, printed,
                   attempted, missing_named, steps>>
    /\ UNCHANGED upload_vars

\* asyncio.run(...) returns and the interpreter exits with status 0, or a
\* SystemExit(1) reaches the top level and the status is 1
ProcessExit ==
    /\ mode = "main"
    /\ pc = "unwound"
    /\ exit_status' = IF system_exit THEN 1 ELSE 0
    /\ pc' = "exited"
    /\ UNCHANGED <<mode, link, parsed, env, client, disconnects, message,
                   downloaded_filepath, disk_file, files_created,
                   download_started, auth_attempted, system_exit, printed,
                   attempted, missing_named, steps>>
    /\ UNCHANGED upload_vars

Next ==
    \/ CheckSecrets
    \/ ParseLink
    \/ Connect
    \/ GetMessage
    \/ DownloadStart
    \/ DownloadEnd
    \/ get_youtube_service
    \/ NextChunk
    \/ Finally
    \/ ProcessExit

Spec == Init /\ [][Next]_vars

\* upload_video on its own: the state in which download_video_and_upload
\* calls it, after a completed download and a successful credential exchange
InitUpload ==
    /\ mode = "main"
    /\ link \in {Link_Plain, Link_Thread}
    /\ parsed = parse_telegram_link(link)
    /\ pc = "upload"
    /\ env = AllSet
    /\ client = "created"
    /\ disconnects = 0
    /\ message = "document"
    /\ downloaded_filepath = "file"
    /\ disk_file = TRUE
    /\ files_created = TRUE
    /\ download_started = TRUE
    /\ auth_attempted = TRUE
    /\ system_exit = FALSE
    /\ exit_status = -1
    /\ printed = {}
    /\ attempted = <<link>>
    /\ missing_named = {}
    /\ steps = <<"secrets", "parse", "connect", "fetch", "validate_media",
                 "download", "auth">>
    /\ IdleUpload

NextUpload ==
    \/ NextChunk
    \/ Finally
    \/ ProcessExit

\* the process is one sequential task: time.sleep returns and every
\* next_chunk call returns or raises, so an enabled step is eventually taken
SpecUploadFair == InitUpload /\ [][NextUpload]_vars /\ WF_vars(NextUpload)

----------------------------------------------------------------------------
(* Properties of upload_video *)

Backoff == <<2, 4, 8, 16, 32>>

Failures(n) == [i \in 1..n |-> "raise"]

FiveFailuresThenId == Failures(5) \o <<"id">>

Min(a, b) == IF a < b THEN a ELSE b

\* the first n next_chunk calls all raised
FirstFailed(n) == Len(calls) >= n /\ \A i \in 1..n : calls[i] = "raise"

UploadReturned == pc \in {"finally", "unwound", "exited"}

\* C1: when next_chunk fails exactly 5 times and then returns a final
\* response with an id, the upload returns that id and the sleeps are exactly
\* 2, 4, 8, 16, 32, the k-th one slept after the k-th failure and before the
\* next call
C1_FiveFailuresThenSuccess ==
    (Len(calls) <= 6 /\ FirstFailed(Min(Len(calls), 5))
        /\ (Len(calls) = 6 => calls[6] = "id"))
    => /\ sleeps = SubSeq(Backoff, 1, Min(Len(calls), 5))
       /\ Len(calls) = 6 => (upload_result = "id" /\ UploadReturned)

C1_Witness ==
    calls = FiveFailuresThenId /\ upload_result = "id" /\ sleeps = Backoff

\* C2: when next_chunk fails 6 times in a row the upload ends failed, without
\* a video id: next_chunk is called 6 times in all (no 6th retry) and no sleep
\* follows the 6th failure
C2_SixFailuresExhaust ==
    FirstFailed(6)
    => /\ calls = Failures(6)
       /\ upload_result = "None"
       /\ UploadReturned
       /\ "max_retries" \in printed
       /\ sleeps = Backoff

C2_Witness ==
    calls = Failures(6) /\ pc = "exited" /\ upload_result = "None"

LastCall == calls[Len(calls)]

\* C4: a final response without an 'id' fails the upload at once as a
\* malformed response: the retry counter is not incremented for it, no
\* backoff is slept for it, no further chunk is sent and the failure is not
\* reported as retries exhausted
C4_MalformedNotRetried ==
    (calls # <<>> /\ LastCall = "noid")
    => /\ upload_result = "None"
       /\ UploadReturned
       /\ retry = Count(calls, "raise")
       /\ Len(sleeps) = Count(calls, "raise")
       /\ "max_retries" \notin printed

\* C14: the retry counter is shared by the whole upload and never reset:
\* however chunks that went through and failing attempts interleave, the
\* counter is the number of failures so far, the k-th sleep is 2^k, and the
\* upload fails on the 6th failure overall
C14_SharedRetryCounter ==
    (mode = "main" /\ Count(calls, "noid") = 0)
    => /\ retry = Count(calls, "raise")
       /\ sleeps = [k \in 1..Min(Count(calls, "raise"), 5) |-> 2 ^ k]
       /\ Count(calls, "raise") <= 6
       /\ Count(calls, "raise") = 6
            => (LastCall = "raise" /\ upload_result = "None" /\ UploadReturned)
       /\ (Count(calls, "raise") < 6 /\ Count(calls, "id") = 0)
            => upload_result = "running"

C14_Witness ==
    /\ calls = <<"raise", "progress", "raise", "raise", "progress",
                 "raise", "raise", "raise">>
    /\ sleeps = Backoff
    /\ upload_result = "None"

\* the most next_chunk calls one upload can make: every chunk of the
\* payload, five failures that are slept on, and one last call
MostCalls == MaxChunks + MAX_RETRIES + 1

\* C15: every upload reaches completed or failed: the loop ends after a
\* bounded number of next_chunk calls whatever the pattern of errors, and
\* once the upload has ended no further chunk is sent
C15_UploadTerminates ==
    /\ (pc = "upload") ~> (upload_result \in {"id", "None"})
    /\ [](Len(calls) <= MostCalls)
    /\ [][upload_result # "running" => calls' = calls]_vars

C15_Witness ==
    /\ pc = "exited"
    /\ Len(calls) = MostCalls
    /\ upload_result = "None"
    /\ Count(calls, "raise") = 6

\* C18: the chunk loop never lets an error reach its caller: upload_video
\* returns the id exactly when the last response received has one, and None
\* in every other case
C18_UploadNeverRaises ==
    (mode = "main" /\ calls # <<>>)
    => /\ "unexpected" \notin printed
       /\ UploadReturned
            => /\ upload_result \in {"id", "None"}
               /\ upload_result = "id" <=> LastCall = "id"
       /\ ~UploadReturned => (pc = "upload" /\ upload_result = "running")

C18_Witness ==
    /\ UploadReturned
    /\ Count(calls, "raise") = 2
    /\ LastCall = "noid"
    /\ upload_result = "None"

RECURSIVE Sum(_)
Sum(seq) == IF seq = <<>> THEN 0 ELSE Head(seq) + Sum(Tail(seq))

\* C19: in every execution the total backoff slept is at most 62, there are
\* at most 5 sleeps and the retry counter is at most 6
C19_BackoffBounded ==
    /\ Sum(sleeps) <= 62
    /\ Len(sleeps) <= 5
    /\ retry <= 6

C19_Witness ==
    /\ retry = 6
    /\ Sum(sleeps) = 62
    /\ Len(sleeps) = 5
    /\ LastCall = "noid"
    /\ Count(calls, "progress") > 0

----------------------------------------------------------------------------
(* Properties of download_video_and_upload *)

RunEnded == mode = "main" /\ pc \in {"unwound", "exited"}

\* C3: whatever the outcome of the run, every local file it created is
\* absent from disk when download_video_and_upload has returned
C3_NoFileLeft == RunEnded => ~(files_created /\ disk_file)

\* the run ended with one of the fatal errors: missing secrets, link parse
\* error, missing message or unsupported media, credential failure, an
\* exception during connect / fetch / download, or a failed upload
FatalError ==
    \/ printed \cap {"config", "parse", "no_media", "unexpected", "auth"} # {}
    \/ upload_result = "None"

\* C5: in single-link mode the exit status is non-zero whenever the run
\* ends with a fatal error, and zero only when a remote id was obtained
C5_ExitStatusReflectsSuccess ==
    (mode = "main" /\ pc = "exited")
    => /\ FatalError => exit_status # 0
       /\ exit_status = 0 => upload_result = "id"

\* C9: once the Telegram client has been created it is disconnected before
\* the run ends, on every exit path
C9_ClientDisconnected ==
    (RunEnded /\ client = "created") => disconnects = 1

\* the exit paths of C9: upload done, no media, connect / fetch / download
\* exception, upload failed, credential failure
C9_Witness ==
    /\ pc = "exited"
    /\ client = "created"
    /\ disconnects = 1
    /\ system_exit
    /\ "auth" \in printed

\* C10: when the fetched message is absent or carries no supported media
\* the run fails with the no-media error: no download is started, no local
\* file is created, no credential exchange and no upload chunk is attempted
C10_NoMediaStopsRun ==
    (mode = "main" /\ message \in {"absent", "no_media", "other_media"})
    => /\ "no_media" \in printed
       /\ pc \in {"finally", "unwound", "exited"}
       /\ ~download_started
       /\ ~files_created
       /\ ~disk_file
       /\ ~auth_attempted
       /\ calls = <<>>
       /\ upload_result = "running"
       /\ printed \cap {"parse", "config"} = {}

C10_Witness ==
    /\ pc = "exited"
    /\ message = "other_media"
    /\ "no_media" \in printed
    /\ ~download_started

MissingSecrets(e) == {s \in Secrets : e[s] # "set"}

\* C11: when a required secret is absent the run fails before any remote
\* connection is opened, with one configuration error that names every
\* missing secret
C11_ConfigErrorNamesMissing ==
    (mode = "main" /\ pc # "secrets" /\ MissingSecrets(env) # {})
    => /\ printed = {"config"}
       /\ client = "none"
       /\ steps = <<"secrets">>
       /\ missing_named = MissingSecrets(env)

\* the pieces of s between the occurrences of the character d
RECURSIVE SplitOn(_, _)
SplitOn(s, d) ==
    IF \E i \in 1..Len(s) : s[i] = d
    THEN LET i == CHOOSE j \in 1..Len(s) :
                      s[j] = d /\ \A k \in 1..(j - 1) : s[k] # d
         IN  <<SubSeq(s, 1, i - 1)>> \o SplitOn(SubSeq(s, i + 1, Len(s)), d)
    ELSE <<s>>

\* C12: given a batch of several links the program attempts every one of
\* them, one after another in input order, whatever fails on the way
C12_BatchAttemptsEveryLink ==
    (mode = "main" /\ pc = "exited") => attempted = SplitOn(link, ",")

InStatedSteps(x) ==
    x \in {"parse", "secrets", "fetch", "validate_media", "download", "upload"}

StatedSteps == SelectSeq(steps, InStatedSteps)

IsPrefix(a, b) == Len(a) <= Len(b) /\ a = SubSeq(b, 1, Len(a))

Malformed(l) == parse_telegram_link(l).err # "none"

\* C13 as stated: the steps of a run occur in the order parse, secrets,
\* fetch, validate media, download, upload, and a malformed link given
\* together with missing secrets is reported as a parse error
C13_ParseBeforeSecrets ==
    mode = "main"
    => /\ IsPrefix(StatedSteps, <<"parse", "secrets", "fetch", "validate_media",
                                  "download", "upload">>)
       /\ (pc = "exited" /\ Malformed(link) /\ MissingSecrets(env) # {})
            => "parse" \in printed

\* C13 amended: the steps of a run occur in the order secrets, parse,
\* fetch, validate media, download, upload, and a malformed link given
\* together with missing secrets is reported as missing secrets, the link
\* never being parsed
C13_SecretsBeforeParse ==
    mode = "main"
    => /\ IsPrefix(StatedSteps, <<"secrets", "parse", "fetch", "validate_media",
                                  "download", "upload">>)
       /\ (pc = "exited" /\ Malformed(link) /\ MissingSecrets(env) # {})
            => (printed = {"config"} /\ parsed = NoResult)

C13_Witness ==
    /\ pc = "exited"
    /\ link = Link_NoC
    /\ MissingSecrets(env) = {"TG_API_HASH"}
    /\ printed = {"config"}
    /\ steps = <<"secrets">>

\* C17: a failure of the YouTube credential exchange is fatal: the process
\* ends with a non-zero status, no upload chunk is ever sent, and the
\* downloaded file is deleted and the Telegram session disconnected before
\* the process ends
C17_CredentialFailureFatal ==
    (mode = "main" /\ "auth" \in printed)
    => /\ calls = <<>>
       /\ upload_result = "running"
       /\ pc \in {"finally", "unwound", "exited"}
       /\ pc = "exited"
            => /\ exit_status # 0
               /\ disconnects = 1
               /\ ~disk_file

C17_Witness ==
    /\ pc = "exited"
    /\ "auth" \in printed
    /\ exit_status = 1
    /\ files_created
    /\ ~disk_file
    /\ disconnects = 1
    /\ calls = <<>>

----------------------------------------------------------------------------
(* Properties of parse_telegram_link *)

ParseDone == mode = "parse" /\ pc # "parse_call"

RECURSIVE Join(_)
Join(ps) ==
    IF ps = <<>> THEN <<>>
    ELSE IF Len(ps) = 1 THEN ps[1]
    ELSE ps[1] \o <<"/">> \o Join(Tail(ps))

\* the link ends in c/<channel>/<thread>/<message>, all three numeric
HasThread(l) ==
    LET p == Parts(l)
        n == Len(p)
    IN  /\ n >= 4
        /\ p[n - 3] = <<"c">>
        /\ AllDigits(p[n - 2])
        /\ AllDigits(p[n - 1])
        /\ AllDigits(p[n])

\* no 'c' segment precedes the one that introduces the ids
CanonicalCFirst(l) == IndexOfC(Parts(l)) = Len(Parts(l)) - 3

\* the same link with the thread segment removed
RemoveThread(l) ==
    LET p == Parts(l)
        n == Len(p)
    IN  Join(SubSeq(p, 1, n - 2) \o <<p[n]>>)

\* C6: a link .../c/<channel>/<thread>/<message> with numeric segments
\* parses to the same result as the link with the thread segment removed
C6_ThreadIgnored ==
    (ParseDone /\ HasThread(link))
    => /\ parsed = parse_telegram_link(RemoveThread(link))
       /\ CanonicalCFirst(link) => parsed.err = "none"

C6_Witness ==
    /\ ParseDone
    /\ HasThread(link)
    /\ parsed.err = "none"
    /\ parsed.message_id # StrToInt(Parts(link)[Len(Parts(link)) - 1])

\* exactly one segment follows the first 'c'
SingleSegmentAfterC(l) ==
    LET p == Parts(l)
    IN  IndexOfC(p) > 0 /\ Len(p) = IndexOfC(p) + 1

\* C7: the parser fails when only a single segment follows 'c'
C7_SingleSegmentFails ==
    (ParseDone /\ SingleSegmentAfterC(link)) => parsed.err # "none"

\* the first 'c' is followed by a digit string and, further on, the last
\* segment is a digit string
ChannelAndMessage(l) ==
    LET p == Parts(l)
        i == IndexOfC(p)
    IN  /\ i > 0
        /\ Len(p) >= i + 2
        /\ AllDigits(p[i + 1])
        /\ AllDigits(p[Len(p)])

ChannelDigits(l) == Parts(l)[IndexOfC(Parts(l)) + 1]

MessageDigits(l) == Parts(l)[Len(Parts(l))]

Sentinel == <<"-", "1", "0", "0">>

\* C8 as stated: the channel reference is the integer read from '-100'
\* followed by the digits d as written, leading zeros included
C8_PrefixOnWrittenDigits ==
    (ParseDone /\ ChannelAndMessage(link))
    => /\ parsed.err = "none"
       /\ parsed.channel_id = StrToInt(Sentinel \o ChannelDigits(link))
       /\ parsed.message_id = StrToInt(MessageDigits(link))

RECURSIVE StripZeros(_)
StripZeros(s) ==
    IF Len(s) > 1 /\ s[1] = "0" THEN StripZeros(Tail(s)) ELSE s

\* C8 amended: the channel reference is the integer read from '-100'
\* followed by the digits d without their leading zeros (the decimal
\* digits of the number d denotes), together with message id m
C8_PrefixOnCanonicalDigits ==
    (ParseDone /\ ChannelAndMessage(link))
    => /\ parsed.err = "none"
       /\ parsed.channel_id = StrToInt(Sentinel \o StripZeros(ChannelDigits(link)))
       /\ parsed.message_id = StrToInt(MessageDigits(link))

C8_Witness ==
    /\ ParseDone
    /\ ChannelAndMessage(link)
    /\ ChannelDigits(link) = <<"0", "1", "1">>
    /\ parsed.channel_id = -10011

\* the link has a 'c' segment and no segment after it
NothingAfterC(l) ==
    LET p == Parts(l)
    IN  IndexOfC(p) > 0 /\ Len(p) = IndexOfC(p)

\* C16: the parser fails with the missing-channel-id error, not with the
\* non-numeric-id error, when no segment follows 'c'
C16_MissingChannelId ==
    (ParseDone /\ NothingAfterC(link)) => parsed.err = "MissingChannelId"

====
